---- MODULE Spec2Model ----
(***************************************************************************)
(* A model of embeddedmz::CFTPClient (src/FTP/FTPClient.cpp): the session  *)
(* lifecycle, the reference-counted global initialisation of the transfer  *)
(* engine, the public remote operations and the recursive wildcard         *)
(* download with its three transfer callbacks.                             *)
(*                                                                         *)
(* Strings the code inspects or concatenates (paths, patterns, URLs) are   *)
(* sequences of one-character strings, so that substr, operator[] and +    *)
(* are computed as the code computes them.  The LINUX build is modelled    *)
(* (path separator '/').  curl_easy_perform, the remote server and the     *)
(* local file system are the environment: their outcomes are               *)
(* nondeterministic choices, bounded by MaxFaults injected failures.       *)
(***************************************************************************)
EXTENDS Integers, Sequences, FiniteSets, TLC

VARIABLES
    clients,          \* per instance: the CFTPClient member fields
    ipc,              \* per instance: position in constructor / destructor
    s_iCurlSession,   \* static volatile int CFTPClient::s_iCurlSession
    s_mtxCurlSession, \* static std::mutex: 0 = free, else the owning instance
    curlGlobal,       \* TRUE between curl_global_init and curl_global_cleanup
    dirs,             \* local file system: the set of directory paths
    files,            \* local file system: regular file path -> content (chunks)
    stack,            \* call stack of DownloadWildcard invocations
    faults,           \* number of environment failures injected so far
    nCalls,           \* number of top-level DownloadWildcard calls made so far
    ev                \* the last step taken (operation, arguments, result)

vars == <<clients, ipc, s_iCurlSession, s_mtxCurlSession, curlGlobal,
          dirs, files, stack, faults, nCalls, ev>>

----------------------------------------------------------------------------
(* Bounds *)

MaxFaults == 2
MaxCalls == 1
NInst == 2
\* the number of callback events of one enumeration that are followed
MaxEvents == 4

Inst == 1 .. NInst
\* the instance whose operations are followed
Main == CHOOSE i \in Inst : \A j \in Inst : i <= j

----------------------------------------------------------------------------
(* Strings *)

SEP == "/"

EndsWith(s, c) == Len(s) > 0 /\ s[Len(s)] = c

\* std::string::substr(0, n)
Prefix(s, n) == SubSeq(s, 1, IF n < Len(s) THEN n ELSE Len(s))

Upper(c) ==
    CASE c = "f" -> "F" [] c = "t" -> "T" [] c = "p" -> "P" [] c = "s" -> "S"
      [] c = "h" -> "H" [] c = "g" -> "G" [] OTHER -> c

ToUpper(s) == [i \in 1 .. Len(s) |-> Upper(s[i])]

RECURSIVE ReplaceString(_, _, _)
ReplaceString(strSubject, cSearch, strReplace) ==
    IF strSubject = <<>> THEN <<>>
    ELSE (IF Head(strSubject) = cSearch THEN strReplace ELSE <<Head(strSubject)>>)
         \o ReplaceString(Tail(strSubject), cSearch, strReplace)

Scheme(eFtpProtocol) ==
    CASE eFtpProtocol = "FTPS"  -> <<"f", "t", "p", "s", ":", "/", "/">>
      [] eFtpProtocol = "FTPES" -> <<"f", "t", "p", "e", "s", ":", "/", "/">>
      [] eFtpProtocol = "SFTP"  -> <<"s", "f", "t", "p", ":", "/", "/">>
      [] OTHER                  -> <<"f", "t", "p", ":", "/", "/">>

\* the one element of a set of one element
The(S) == CHOOSE x \in S : TRUE

ParseURL(c, strRemoteFile) ==
    The({LET strUri == ToUpper(strURL)
         IN  IF Prefix(strUri, 3) # <<"F", "T", "P">> /\ Prefix(strUri, 4) # <<"S", "F", "T", "P">>
             THEN Scheme(c.proto) \o strURL
             ELSE strURL :
         strURL \in {ReplaceString(c.host \o <<"/">> \o strRemoteFile, "/", <<"/", "/">>)}})

----------------------------------------------------------------------------
(* Client fields and logging *)

ALL_FLAGS == {"ENABLE_LOG", "ENABLE_SSH"}
NO_FLAGS == {}

ClientCtor ==
    [sess |-> FALSE, host |-> <<>>, port |-> 0, login |-> "", pwd |-> "",
     proto |-> "FTP", flags |-> ALL_FLAGS]

\* if (m_eSettingsFlags & ENABLE_LOG) m_oLog(msg);
LogIf(c, msg) == IF "ENABLE_LOG" \in c.flags THEN <<msg>> ELSE <<>>

NoFrame == [none |-> TRUE]

\* The record of a step: the operation or callback, how far it got ("done": it
\* returned ret; "entered": its perform is in flight; "callback"; "perform_end";
\* "return"), the instance, the call depth, the arguments, the value returned,
\* the number of performs issued, the messages given to the logger, the
\* DownloadWildcard invocation concerned and the client's fields before the
\* step; lastOk / prevOk name the last successful session operation after and
\* before the step; lastRun / prevRun describe the last top-level call of
\* DownloadWildcard that has returned from its perform, after and before the
\* step: its arguments, its result and the local file system and the number of
\* failures it left (NoRun: there was none yet; NoHistory: the behaviour keeps
\* no such description).
NoRun == [none |-> TRUE]

NoHistory == [off |-> TRUE]

EvRec(op, phase, inst, depth, a1, a2, ret, performs, logs, frame, pre, prevOk, prevRun) ==
    [op |-> op, phase |-> phase, inst |-> inst, depth |-> depth, a1 |-> a1,
     a2 |-> a2, ret |-> ret, performs |-> performs, logs |-> logs,
     frame |-> frame, pre |-> pre, prevOk |-> prevOk,
     lastOk |-> IF op \in {"InitSession", "CleanupSession"} /\ ret THEN op ELSE prevOk,
     prevRun |-> prevRun,
     lastRun |-> IF prevRun = NoHistory THEN NoHistory
                 ELSE IF op = "DownloadWildcard" /\ phase = "return" /\ depth = 1
                 THEN [strLocalDir |-> a1, strRemoteWildcard |-> a2, ret |-> ret,
                       dirs |-> dirs, files |-> files, faults |-> faults]
                 ELSE prevRun]

Ev(op, phase, inst, depth, a1, a2, ret, performs, logs, frame, pre) ==
    EvRec(op, phase, inst, depth, a1, a2, ret, performs, logs, frame, pre, ev.lastOk,
          ev.lastRun)

Idle == stack = <<>>

\* a variant of SessionStarted that lets every operation through
SessionAssumed(c) == TRUE

\* m_pCurlSession != nullptr, as the remote operations test it
SessionStarted(c) == c.sess

----------------------------------------------------------------------------
(* Session lifecycle: InitSession, CleanupSession *)

\* curl_easy_init() returns a handle, or nullptr when the engine cannot
\* allocate one (an injected failure).
CurlEasyInit == {TRUE} \cup (IF faults < MaxFaults THEN {FALSE} ELSE {})

\* a variant of InitSessionResult without the test for a session already started
InitSessionAgain(c, strHost, uPort, strLogin, strPassword, eFtpProtocol, eSettingsFlags, h) ==
    IF strHost = <<>>
    THEN [c |-> c, ret |-> FALSE, logs |-> LogIf(c, "LOG_ERROR_EMPTY_HOST_MSG")]
    ELSE [c |-> [sess |-> h, host |-> strHost, port |-> uPort, login |-> strLogin,
                 pwd |-> strPassword, proto |-> eFtpProtocol, flags |-> eSettingsFlags],
          ret |-> h, logs |-> <<>>]

InitSessionResult(c, strHost, uPort, strLogin, strPassword, eFtpProtocol, eSettingsFlags, h) ==
    IF strHost = <<>>
    THEN [c |-> c, ret |-> FALSE, logs |-> LogIf(c, "LOG_ERROR_EMPTY_HOST_MSG")]
    ELSE IF c.sess
    THEN [c |-> c, ret |-> FALSE, logs |-> LogIf(c, "LOG_ERROR_CURL_ALREADY_INIT_MSG")]
    ELSE [c |-> [sess |-> h, host |-> strHost, port |-> uPort, login |-> strLogin,
                 pwd |-> strPassword, proto |-> eFtpProtocol, flags |-> eSettingsFlags],
          ret |-> h, logs |-> <<>>]

InitSession(i, strHost, uPort, strLogin, strPassword, eFtpProtocol, eSettingsFlags) ==
    /\ Idle /\ ipc[i] = "live"
    /\ \E h \in CurlEasyInit :
         LET c == clients[i]
             r == InitSessionResult(c, strHost, uPort, strLogin, strPassword,
                                    eFtpProtocol, eSettingsFlags, h)
         IN  /\ h = FALSE => (strHost # <<>> /\ ~c.sess)
             /\ clients' = [clients EXCEPT ![i] = r.c]
             /\ faults' = IF h THEN faults ELSE faults + 1
             /\ ev' = Ev("InitSession", "done", i, 0, strHost, <<>>, r.ret, 0, r.logs, NoFrame, c)
    /\ UNCHANGED <<ipc, s_iCurlSession, s_mtxCurlSession, curlGlobal, dirs, files, stack, nCalls>>

CleanupSessionResult(c) ==
    IF ~c.sess
    THEN [c |-> c, ret |-> FALSE, logs |-> LogIf(c, "LOG_ERROR_CURL_NOT_INIT_MSG")]
    ELSE [c |-> [c EXCEPT !.sess = FALSE], ret |-> TRUE, logs |-> <<>>]

CleanupSession(i) ==
    /\ Idle /\ ipc[i] = "live"
    /\ LET c == clients[i]
           r == CleanupSessionResult(c)
       IN  /\ clients' = [clients EXCEPT ![i] = r.c]
           /\ ev' = Ev("CleanupSession", "done", i, 0, <<>>, <<>>, r.ret, 0, r.logs, NoFrame, c)
    /\ UNCHANGED <<ipc, s_iCurlSession, s_mtxCurlSession, curlGlobal, dirs, files, stack, faults, nCalls>>

----------------------------------------------------------------------------
(* Local file system *)

RECURSIVE LastSlash(_)
LastSlash(p) == IF p = <<>> THEN 0 ELSE IF p[Len(p)] = SEP THEN Len(p) ELSE LastSlash(SubSeq(p, 1, Len(p) - 1))

\* The directory a path's last component lives in exists (a path without a
\* separator is relative to the working directory, which exists).
ParentExists(p, d) == LastSlash(p) = 0 \/ SubSeq(p, 1, LastSlash(p) - 1) \in d

\* stat(path) == 0
StatExists(path, d, f) == path \in d \/ path \in DOMAIN f

\* a variant of StatIsDir without the test of S_IFDIR
StatOnly(path, d, f) == StatExists(SubSeq(path, 1, Len(path) - 1), d, f)

\* stat(path) == 0 && (st_mode & S_IFDIR), for a path ending in the separator
StatIsDir(path, d, f) == SubSeq(path, 1, Len(path) - 1) \in d

\* a variant of Remove that leaves the file where it is
RemoveNothing(f, p) == f

Remove(f, p) == [q \in DOMAIN f \ {p} |-> f[q]]

\* a variant of Truncate that keeps the content of an existing file
OpenToAppend(f, p) == [q \in DOMAIN f \cup {p} |-> IF q \in DOMAIN f THEN f[q] ELSE <<>>]

Truncate(f, p) == [q \in DOMAIN f \cup {p} |-> IF q = p THEN <<>> ELSE f[q]]

----------------------------------------------------------------------------
(* The remote server *)

FileE(n, ch) == [name |-> n, type |-> "FILE", chunks |-> ch]
DirE(n) == [name |-> n, type |-> "DIR", chunks |-> <<>>]
OtherE(n) == [name |-> n, type |-> "OTHER", chunks |-> <<>>]

\* remote directory (sequence of path components) -> its entries, in listing order
RemoteTree ==
    (<<>> :> <<DirE(<<"a">>), DirE(<<"b">>), OtherE(<<"s">>), DirE(<<"c">>)>>) @@
    (<< <<"a">> >> :> <<FileE(<<"f">>, <<1, 2>>)>>) @@
    (<< <<"b">> >> :> <<FileE(<<"g">>, <<3>>), DirE(<<"d">>)>>) @@
    (<< <<"b">>, <<"d">> >> :> <<>>) @@
    (<< <<"c">> >> :> <<FileE(<<"f">>, <<4>>)>>)

RECURSIVE Split(_, _)
\* the non-empty components of s between separators; cur is the component being read
Split(s, cur) ==
    IF s = <<>> THEN (IF cur = <<>> THEN <<>> ELSE <<cur>>)
    ELSE IF Head(s) = "/" THEN (IF cur = <<>> THEN <<>> ELSE <<cur>>) \o Split(Tail(s), <<>>)
    ELSE Split(Tail(s), Append(cur, Head(s)))

\* the path components of a URL after scheme and host
UrlPath(url) ==
    The({LET noScheme == IF segs # <<>> /\ EndsWith(segs[1], ":") THEN Tail(segs) ELSE segs
         IN  IF noScheme = <<>> THEN <<>> ELSE Tail(noScheme) :
         segs \in {Split(url, <<>>)}})

RECURSIVE Fnmatch(_, _)
Fnmatch(p, s) ==
    IF p = <<>> THEN s = <<>>
    ELSE IF Head(p) = "*" THEN Fnmatch(Tail(p), s) \/ (s # <<>> /\ Fnmatch(p, Tail(s)))
    ELSE s # <<>> /\ Head(p) = Head(s) /\ Fnmatch(Tail(p), Tail(s))

Front(s) == SubSeq(s, 1, Len(s) - 1)

\* What one perform with CURLOPT_WILDCARDMATCH on `url` is going to deliver when
\* nothing fails: the matching entries, or a raw listing when the URL names a
\* directory (trailing separator), and the status it then ends with.
PlanFor(url, path) ==
    LET list == EndsWith(url, "/") \/ path = <<>>
        dir  == IF list THEN path ELSE Front(path)
        glob == IF list THEN <<>> ELSE path[Len(path)]
    IN  IF dir \notin DOMAIN RemoteTree
        THEN [todo |-> <<>>, cur |-> <<>>, res0 |-> "CURLE_REMOTE_ACCESS_DENIED"]
        ELSE IF list
        THEN [todo |-> <<>>, cur |-> IF RemoteTree[dir] = <<>> THEN <<>> ELSE <<0>>,
              res0 |-> "CURLE_OK"]
        ELSE LET m == SelectSeq(RemoteTree[dir], LAMBDA e : Fnmatch(glob, e.name))
             IN  [todo |-> m, cur |-> <<>>,
                  res0 |-> IF m = <<>> THEN "CURLE_REMOTE_FILE_NOT_FOUND" ELSE "CURLE_OK"]

EnvPlan(url) == The({PlanFor(u, path) : <<u, path>> \in {<<url, UrlPath(url)>>}})

\* the content of the remote file a URL names, or <<-1>> when there is none
RemoteFile(url) ==
    LET path == UrlPath(url)
        dir  == IF path = <<>> THEN <<>> ELSE Front(path)
        hits == IF path = <<>> \/ dir \notin DOMAIN RemoteTree THEN <<>>
                ELSE SelectSeq(RemoteTree[dir],
                               LAMBDA e : e.name = path[Len(path)] /\ e.type = "FILE")
    IN  IF hits = <<>> THEN <<-1>> ELSE hits[1].chunks

----------------------------------------------------------------------------
(* WildcardTransfersCallbackData and the three wildcard callbacks *)

ClosedStream == [open |-> FALSE, path |-> <<>>, fail |-> FALSE]

NewData(strOutputPath) ==
    [strOutputPath |-> strOutputPath, ofsOutput |-> ClosedStream, vecDirList |-> <<>>]

\* mkdir(path, ACCESSPERMS): 0, or -1 with errno EEXIST, ENOENT or (an injected
\* failure) EACCES
MkdirResults(path, d, f, canFault) ==
    IF StatExists(path, d, f) THEN {"EEXIST"}
    ELSE IF ~ParentExists(path, d) THEN {"ENOENT"}
    ELSE {"0"} \cup (IF canFault THEN {"EACCES"} ELSE {})

\* a variant of MkdirFailed that takes every result of mkdir for a success
MkdirIgnored(m) == FALSE

\* mkdir(...) != 0 && errno != EEXIST
MkdirFailed(m) == m # "0" /\ m # "EEXIST"

\* std::ofstream::open(path, out | binary | trunc) on a closed stream: TRUE
\* when the file was opened (created or truncated)
OpenResults(path, d, canFault) ==
    IF path \in d \/ ~ParentExists(path, d) THEN {FALSE}
    ELSE {TRUE} \cup (IF canFault THEN {FALSE} ELSE {})

\* The outcomes of FileIsComingCallback(finfo, data, remains) in file system
\* (d, f): the callback data and file system after it, the value returned and
\* whether an injected failure was used.
\* a variant of AnnouncedDirectory that collects the name without creating
\* the directory
AnnouncedDirectoryOnly(finfo, data, d, f, canFault) ==
    {[data |-> [data EXCEPT !.vecDirList = Append(@, finfo.name)],
      dirs |-> d, files |-> f, ret |-> "CURL_CHUNK_BGN_FUNC_OK", fault |-> 0]}

\* case CURLFILETYPE_DIRECTORY
AnnouncedDirectory(finfo, data, d, f, canFault) ==
    LET path  == data.strOutputPath \o finfo.name
        data1 == [data EXCEPT !.vecDirList = Append(@, finfo.name)]
    IN  {[data |-> data1,
          dirs |-> IF m = "0" THEN d \cup {path} ELSE d,
          files |-> f,
          ret |-> IF MkdirFailed(m) THEN "CURL_CHUNK_BGN_FUNC_FAIL"
                  ELSE "CURL_CHUNK_BGN_FUNC_OK",
          fault |-> IF m = "EACCES" THEN 1 ELSE 0] :
         m \in MkdirResults(path, d, f, canFault)}

\* a variant of AnnouncedFile in which an announcement that finds a file open
\* closes it and opens the announced one
AnnouncedFileReopen(finfo, data, d, f, canFault) ==
    LET path == data.strOutputPath \o finfo.name
    IN  {[data |-> [data EXCEPT !.ofsOutput =
                       IF o THEN [open |-> TRUE, path |-> path, fail |-> FALSE]
                       ELSE [open |-> FALSE, path |-> <<>>, fail |-> TRUE]],
          dirs |-> d,
          files |-> IF o THEN Truncate(f, path) ELSE f,
          ret |-> IF o THEN "CURL_CHUNK_BGN_FUNC_OK" ELSE "CURL_CHUNK_BGN_FUNC_FAIL",
          fault |-> IF ~o /\ TRUE \in OpenResults(path, d, canFault) THEN 1 ELSE 0] :
         o \in OpenResults(path, d, canFault)}

\* case CURLFILETYPE_FILE
AnnouncedFile(finfo, data, d, f, canFault) ==
    LET path == data.strOutputPath \o finfo.name
    IN  IF data.ofsOutput.open
        THEN \* open() on a stream that is already open fails: failbit is
             \* set, the stream stays associated with its file
             {[data |-> [data EXCEPT !.ofsOutput.fail = TRUE], dirs |-> d, files |-> f,
               ret |-> "CURL_CHUNK_BGN_FUNC_OK", fault |-> 0]}
        ELSE {[data |-> [data EXCEPT !.ofsOutput =
                            IF o THEN [open |-> TRUE, path |-> path, fail |-> FALSE]
                            ELSE [open |-> FALSE, path |-> <<>>, fail |-> TRUE]],
               dirs |-> d,
               files |-> IF o THEN Truncate(f, path) ELSE f,
               ret |-> IF o THEN "CURL_CHUNK_BGN_FUNC_OK" ELSE "CURL_CHUNK_BGN_FUNC_FAIL",
               fault |-> IF ~o /\ TRUE \in OpenResults(path, d, canFault) THEN 1 ELSE 0] :
              o \in OpenResults(path, d, canFault)}

\* a variant of FileIsComingCallback without the default case: every entry
\* that is no directory is opened as a file
FileIsComingNoDefault(finfo, data, d, f, canFault) ==
    IF finfo.type = "DIR" THEN AnnouncedDirectory(finfo, data, d, f, canFault)
    ELSE AnnouncedFile(finfo, data, d, f, canFault)

FileIsComingCallback(finfo, data, d, f, canFault) ==
    IF finfo.type = "DIR" THEN AnnouncedDirectory(finfo, data, d, f, canFault)
    ELSE IF finfo.type = "FILE" THEN AnnouncedFile(finfo, data, d, f, canFault)
    ELSE {[data |-> data, dirs |-> d, files |-> f, ret |-> "CURL_CHUNK_BGN_FUNC_OK", fault |-> 0]}

\* a variant of FileIsDownloadedCallback that does not close the stream
FileLeftOpen(data) == data

FileIsDownloadedCallback(data) ==
    IF data.ofsOutput.open THEN [data EXCEPT !.ofsOutput.open = FALSE, !.ofsOutput.path = <<>>]
    ELSE data

\* a variant of WriteItCallback that reports data as written when no file is open
WriteItAccepting(buff, nmemb, data, f) ==
    [files |-> IF data.ofsOutput.open /\ ~data.ofsOutput.fail
               THEN [f EXCEPT ![data.ofsOutput.path] = Append(@, buff)]
               ELSE f,
     written |-> nmemb]

\* a variant of WriteItCallback that accepts the data without writing them
WriteItNothing(buff, nmemb, data, f) ==
    [files |-> f, written |-> IF data.ofsOutput.open THEN nmemb ELSE 0]

\* WriteItCallback(buff, size, nmemb, cb_data): the engine passes size = 1 and
\* here nmemb = 1 (a chunk is one unit of content)
WriteItCallback(buff, nmemb, data, f) ==
    IF data.ofsOutput.open
    THEN [files |-> IF data.ofsOutput.fail THEN f
                    ELSE [f EXCEPT ![data.ofsOutput.path] = Append(@, buff)],
          written |-> nmemb]
    ELSE [files |-> f, written |-> 0]

----------------------------------------------------------------------------
(* DownloadWildcard *)

NormalizeDir(strLocalDir) ==
    strLocalDir \o (IF strLocalDir[Len(strLocalDir)] # SEP THEN <<SEP>> ELSE <<>>)

NewFrame(c, strLocalDir, strRemoteWildcard) ==
    [strLocalDir |-> strLocalDir, strRemoteWildcard |-> strRemoteWildcard,
     data |-> NewData(NormalizeDir(strLocalDir)),
     pc |-> "perform",
     env |-> EnvPlan(ParseURL(c, strRemoteWildcard)) @@
             [inItem |-> FALSE, type |-> "", name |-> <<>>, sent |-> 0],
     res |-> "",
     bRet |-> FALSE, i |-> 0, calls |-> <<>>]

\* DownloadWildcard from its entry to the call of Perform: either the frame of
\* the invocation whose perform is now in flight, or an immediate return of false
Enter(c, strLocalDir, strRemoteWildcard, d, f) ==
    IF strLocalDir = <<>> \/ strRemoteWildcard = <<>>
    THEN [pushed |-> FALSE, frame |-> NoFrame, logs |-> <<>>]
    ELSE IF ~SessionStarted(c)
    THEN [pushed |-> FALSE, frame |-> NoFrame, logs |-> LogIf(c, "LOG_ERROR_CURL_NOT_INIT_MSG")]
    ELSE IF StatIsDir(NormalizeDir(strLocalDir), d, f)
    THEN [pushed |-> TRUE, frame |-> NewFrame(c, strLocalDir, strRemoteWildcard), logs |-> <<>>]
    ELSE [pushed |-> FALSE, frame |-> NoFrame, logs |-> LogIf(c, "LOG_ERROR_DIR_GETWILD_FORMAT")]

\* a variant of ToleratedStatus without the exception for status 78
OnlyOk(res) == res = "CURLE_OK"

\* a variant of ToleratedStatus that takes every status for a success
AnyStatus(res) == TRUE

ToleratedStatus(res) == res = "CURLE_OK" \/ res = "CURLE_REMOTE_FILE_NOT_FOUND"

\* a variant of RecursionWanted that does not look at the end of the pattern
RecursionOnAnyPattern(fr) == fr.data.vecDirList # <<>>

RecursionWanted(fr) ==
    fr.data.vecDirList # <<>> /\ fr.strRemoteWildcard[Len(fr.strRemoteWildcard)] = "*"

\* DownloadWildcard after Perform has returned res, up to the loop over vecDirList
AfterPerform(c, fr, res) ==
    IF ~ToleratedStatus(res)
    THEN [frame |-> [fr EXCEPT !.res = res, !.pc = "ret"],
          logs |-> LogIf(c, "LOG_ERROR_CURL_GETWILD_FORMAT")]
    ELSE IF RecursionWanted(fr)
    THEN [frame |-> [fr EXCEPT !.res = res, !.pc = "loop", !.bRet = TRUE, !.i = 1], logs |-> <<>>]
    ELSE [frame |-> [fr EXCEPT !.res = res, !.pc = "ret", !.bRet = TRUE], logs |-> <<>>]

\* a variant of BaseUrl that does not insert the missing '/'
BaseUrlAsIs(strRemoteWildcard) == SubSeq(strRemoteWildcard, 1, Len(strRemoteWildcard) - 1)

BaseUrl(strRemoteWildcard) ==
    LET strBaseUrl == SubSeq(strRemoteWildcard, 1, Len(strRemoteWildcard) - 1)
    IN  IF strBaseUrl # <<>> /\ strBaseUrl[Len(strBaseUrl)] # "/"
        THEN strBaseUrl \o <<"/">>
        ELSE strBaseUrl

\* the arguments of the recursive call for list element Dir
ChildArgs(fr, Dir) ==
    [strLocalDir |-> fr.data.strOutputPath \o Dir,
     strRemoteWildcard |-> BaseUrl(fr.strRemoteWildcard) \o Dir \o <<"/", "*">>]

LoopPc(fr, i) == IF i > Len(fr.data.vecDirList) THEN "ret" ELSE "loop"

\* a variant of ChildReturned that leaves the loop at the first failed call
ChildReturnedBreak(fr, a, r) ==
    [frame |-> [fr EXCEPT !.bRet = IF r THEN @ ELSE FALSE,
                          !.calls = Append(@, [strLocalDir |-> a.strLocalDir,
                                               strRemoteWildcard |-> a.strRemoteWildcard,
                                               res |-> a.res,
                                               ret |-> r]),
                          !.i = @ + 1,
                          !.pc = IF r THEN LoopPc(fr, fr.i + 1) ELSE "ret"],
     logs |-> IF r THEN <<>> ELSE <<"LOG_ERROR_CURL_GETWILD_REC_FORMAT">>]

\* a variant of ChildReturned that repeats a call that returned false
ChildReturnedRetry(fr, a, r) ==
    IF r
    THEN [frame |-> [fr EXCEPT !.calls = Append(@, [strLocalDir |-> a.strLocalDir,
                                                    strRemoteWildcard |-> a.strRemoteWildcard,
                                                    res |-> a.res,
                                                    ret |-> r]),
                               !.i = @ + 1,
                               !.pc = LoopPc(fr, fr.i + 1)],
          logs |-> <<>>]
    ELSE [frame |-> [fr EXCEPT !.bRet = FALSE],
          logs |-> <<"LOG_ERROR_CURL_GETWILD_REC_FORMAT">>]

\* one iteration of the loop over vecDirList has got the result r of its call
\* (a holds the call's arguments and the status res its perform ended with, ""
\* when it issued none; calls records the calls the loop has made)
ChildReturned(fr, a, r) ==
    [frame |-> [fr EXCEPT !.bRet = IF r THEN @ ELSE FALSE,
                          !.calls = Append(@, [strLocalDir |-> a.strLocalDir,
                                               strRemoteWildcard |-> a.strRemoteWildcard,
                                               res |-> a.res,
                                               ret |-> r]),
                          !.i = @ + 1,
                          !.pc = LoopPc(fr, fr.i + 1)],
     logs |-> IF r THEN <<>> ELSE <<"LOG_ERROR_CURL_GETWILD_REC_FORMAT">>]

Top == stack[Len(stack)]

\* a variant of SetTop for callback data shared by all invocations: what the
\* running invocation writes lands in the outermost one
SetOutermost(fr) == [stack EXCEPT ![1] = fr]

SetTop(fr) == [stack EXCEPT ![Len(stack)] = fr]

FrozenGlobal == UNCHANGED <<clients, ipc, s_iCurlSession, s_mtxCurlSession, curlGlobal, nCalls>>

\* a top-level call of DownloadWildcard, the budget-th at most
CallDownloadWildcard(strLocalDir, strRemoteWildcard, budget) ==
    /\ Idle /\ ipc[Main] = "live"
    /\ nCalls < budget
    /\ LET c == clients[Main]
           o == Enter(c, strLocalDir, strRemoteWildcard, dirs, files)
       IN  /\ stack' = IF o.pushed THEN <<o.frame>> ELSE <<>>
           /\ ev' = Ev("DownloadWildcard", IF o.pushed THEN "entered" ELSE "done", Main, 1,
                       strLocalDir, strRemoteWildcard, FALSE, IF o.pushed THEN 1 ELSE 0,
                       o.logs, o.frame, c)
    /\ nCalls' = nCalls + 1
    /\ UNCHANGED <<clients, ipc, s_iCurlSession, s_mtxCurlSession, curlGlobal,
                   dirs, files, faults>>

DownloadWildcard(strLocalDir, strRemoteWildcard) ==
    CallDownloadWildcard(strLocalDir, strRemoteWildcard, MaxCalls)

\* the perform in flight ends with status res: DownloadWildcard interprets it
EndPerform(op, a1, a2, fr, res, fs) ==
    LET c == clients[Main]
        a == AfterPerform(c, fr, res)
    IN  /\ stack' = SetTop(a.frame)
        /\ files' = fs
        /\ ev' = Ev(op, "perform_end", Main, Len(stack), a1, a2, FALSE, 0, a.logs, a.frame, c)

\* the engine announces the next matching entry
ChunkBgn ==
    /\ ~Idle /\ Top.pc = "perform"
    /\ Top.env.todo # <<>> /\ ~Top.env.inItem /\ Top.env.cur = <<>>
    /\ LET fr == Top
           finfo == Head(fr.env.todo)
       IN  \E o \in FileIsComingCallback(finfo, fr.data, dirs, files, faults < MaxFaults) :
             /\ dirs' = o.dirs
             /\ faults' = faults + o.fault
             /\ IF o.ret = "CURL_CHUNK_BGN_FUNC_OK"
                THEN LET fr1 == [fr EXCEPT !.data = o.data,
                                           !.env.todo = Tail(@),
                                           !.env.inItem = TRUE,
                                           !.env.type = finfo.type,
                                           !.env.name = finfo.name,
                                           !.env.sent = 0,
                                           !.env.cur = finfo.chunks]
                     IN  /\ stack' = SetTop(fr1)
                         /\ files' = o.files
                         /\ ev' = Ev("FileIsComingCallback", "callback", Main, Len(stack),
                                     finfo.name, finfo.type, TRUE, 0, <<>>, fr1, clients[Main])
                ELSE EndPerform("FileIsComingCallback", finfo.name, finfo.type,
                                [fr EXCEPT !.data = o.data], "CURLE_CHUNK_FAILED", o.files)
    /\ FrozenGlobal

\* the engine delivers the next chunk of content (of the announced file, or of
\* a raw directory listing) to the write callback
WriteIt ==
    /\ ~Idle /\ Top.pc = "perform"
    /\ Top.env.cur # <<>>
    /\ LET fr == Top
           w == WriteItCallback(Head(fr.env.cur), 1, fr.data, files)
       IN  IF w.written = 1
           THEN LET fr1 == [fr EXCEPT !.env.cur = Tail(@), !.env.sent = @ + 1]
                IN  /\ stack' = SetTop(fr1)
                    /\ files' = w.files
                    /\ ev' = Ev("WriteItCallback", "callback", Main, Len(stack),
                                <<>>, <<>>, TRUE, 0, <<>>, fr1, clients[Main])
           ELSE EndPerform("WriteItCallback", <<>>, <<>>,
                           [fr EXCEPT !.data = IF fr.env.inItem THEN FileIsDownloadedCallback(@) ELSE @,
                                      !.env.inItem = FALSE],
                           "CURLE_WRITE_ERROR", w.files)
    /\ UNCHANGED <<dirs, faults>>
    /\ FrozenGlobal

\* the engine reports the announced entry as finished
ChunkEnd ==
    /\ ~Idle /\ Top.pc = "perform"
    /\ Top.env.inItem /\ Top.env.cur = <<>>
    /\ LET fr1 == [Top EXCEPT !.data = FileIsDownloadedCallback(@), !.env.inItem = FALSE]
       IN  /\ stack' = SetTop(fr1)
           /\ ev' = Ev("FileIsDownloadedCallback", "callback", Main, Len(stack),
                       <<>>, <<>>, TRUE, 0, <<>>, fr1, clients[Main])
    /\ UNCHANGED <<dirs, files, faults>>
    /\ FrozenGlobal

\* everything matching was transferred (or nothing matched): perform returns
PerformDone ==
    /\ ~Idle /\ Top.pc = "perform"
    /\ Top.env.todo = <<>> /\ ~Top.env.inItem /\ Top.env.cur = <<>>
    /\ EndPerform("Perform", <<>>, <<>>, Top, Top.env.res0, files)
    /\ UNCHANGED <<dirs, faults>>
    /\ FrozenGlobal

\* the connection fails in the middle of the perform; the engine finishes the
\* entry in progress (chunk end callback) and perform returns the error
PerformFails ==
    /\ ~Idle /\ Top.pc = "perform"
    /\ faults < MaxFaults
    /\ faults' = faults + 1
    /\ EndPerform("Perform", <<>>, <<>>,
                  [Top EXCEPT !.data = IF Top.env.inItem THEN FileIsDownloadedCallback(@) ELSE @,
                              !.env.inItem = FALSE],
                  "CURLE_RECV_ERROR", files)
    /\ UNCHANGED dirs
    /\ FrozenGlobal

\* the server refuses the retrieval of an announced file (reply 550): the
\* engine finishes the entry and perform returns "remote file not found"
RetrRefused ==
    /\ ~Idle /\ Top.pc = "perform"
    /\ Top.env.inItem /\ Top.env.type = "FILE" /\ Top.env.sent = 0
    /\ faults < MaxFaults
    /\ faults' = faults + 1
    /\ EndPerform("Perform", <<>>, <<>>,
                  [Top EXCEPT !.data = FileIsDownloadedCallback(@), !.env.inItem = FALSE],
                  "CURLE_REMOTE_FILE_NOT_FOUND", files)
    /\ UNCHANGED dirs
    /\ FrozenGlobal

\* the loop over vecDirList calls DownloadWildcard for its next element
CallChild ==
    /\ ~Idle /\ Top.pc = "loop"
    /\ \E fr \in {Top}, c \in {clients[Main]} :
       \E a \in {ChildArgs(fr, fr.data.vecDirList[fr.i])} :
       \E o \in {Enter(c, a.strLocalDir, a.strRemoteWildcard, dirs, files)},
          p \in {ChildReturned(fr, a @@ [res |-> ""], FALSE)} :
           IF o.pushed
           THEN /\ stack' = Append(stack, o.frame)
                /\ ev' = Ev("DownloadWildcard", "entered", Main, Len(stack) + 1,
                            a.strLocalDir, a.strRemoteWildcard, FALSE, 1, <<>>, o.frame, c)
           ELSE /\ stack' = SetTop(p.frame)
                /\ ev' = Ev("DownloadWildcard", "done", Main, Len(stack) + 1,
                            a.strLocalDir, a.strRemoteWildcard, FALSE, 0,
                            o.logs \o p.logs, NoFrame, c)
    /\ UNCHANGED <<dirs, files, faults>>
    /\ FrozenGlobal

\* an invocation returns bRet; its callback data is destroyed (which closes
\* the stream) and the caller's loop goes on
Return ==
    /\ ~Idle /\ Top.pc = "ret"
    /\ LET fr == Top
           c  == clients[Main]
           a  == [strLocalDir |-> fr.strLocalDir, strRemoteWildcard |-> fr.strRemoteWildcard,
                  res |-> fr.res]
       IN  IF Len(stack) = 1
           THEN /\ stack' = <<>>
                /\ ev' = Ev("DownloadWildcard", "return", Main, 1, fr.strLocalDir,
                            fr.strRemoteWildcard, fr.bRet, 0, <<>>, fr, c)
           ELSE LET p == ChildReturned(stack[Len(stack) - 1], a, fr.bRet)
                IN  /\ stack' = [SubSeq(stack, 1, Len(stack) - 1) EXCEPT ![Len(stack) - 1] = p.frame]
                    /\ ev' = Ev("DownloadWildcard", "return", Main, Len(stack), fr.strLocalDir,
                                fr.strRemoteWildcard, fr.bRet, 0, p.logs, fr, c)
    /\ UNCHANGED <<dirs, files, faults>>
    /\ FrozenGlobal

----------------------------------------------------------------------------
(* The other public remote operations *)

\* the status a perform of a single request may return
PerformStatuses == {"CURLE_OK", "CURLE_REMOTE_FILE_NOT_FOUND", "CURLE_RECV_ERROR"}

\* The shape shared by CreateDir, RemoveDir, RemoveFile and List: the two
\* guards, the request, one Perform, and the result read off its status.
RemoteOp(op, a1, a2, anyEmpty, ok, errLog) ==
    /\ Idle /\ ipc[Main] = "live"
    /\ LET c == clients[Main]
       IN  IF anyEmpty
           THEN ev' = Ev(op, "done", Main, 0, a1, a2, FALSE, 0, <<>>, NoFrame, c)
           ELSE IF ~SessionStarted(c)
           THEN ev' = Ev(op, "done", Main, 0, a1, a2, FALSE, 0,
                         LogIf(c, "LOG_ERROR_CURL_NOT_INIT_MSG"), NoFrame, c)
           ELSE \E res \in PerformStatuses :
                  ev' = Ev(op, "done", Main, 0, a1, a2, res = "CURLE_OK" /\ ok, 1,
                           IF res # "CURLE_OK" THEN LogIf(c, errLog) ELSE <<>>, NoFrame, c)
    /\ UNCHANGED <<clients, ipc, s_iCurlSession, s_mtxCurlSession, curlGlobal,
                   dirs, files, stack, faults, nCalls>>

CreateDir(strNewDir) ==
    RemoteOp("CreateDir", strNewDir, <<>>, strNewDir = <<>>, TRUE, "LOG_ERROR_CURL_MKDIR_FORMAT")

RemoveDir(strDir) ==
    RemoteOp("RemoveDir", strDir, <<>>, strDir = <<>>, TRUE, "LOG_ERROR_CURL_RMDIR_FORMAT")

RemoveFile(strRemoteFile) ==
    RemoteOp("RemoveFile", strRemoteFile, <<>>, strRemoteFile = <<>>, TRUE,
             "LOG_ERROR_CURL_REMOVE_FORMAT")

\* Info succeeds when the perform does and the engine then knows the file's
\* modification time or a positive size (gotInfo)
Info(strRemoteFile) ==
    \E gotInfo \in BOOLEAN :
      RemoteOp("Info", strRemoteFile, <<>>, strRemoteFile = <<>>, gotInfo,
               "LOG_ERROR_CURL_FILETIME_FORMAT")

List(strRemoteFolder) ==
    RemoteOp("List", strRemoteFolder, <<>>, strRemoteFolder = <<>>, TRUE,
             "LOG_ERROR_CURL_FILELIST_FORMAT")

UploadFile(strLocalFile, strRemoteFile) ==
    /\ Idle /\ ipc[Main] = "live"
    /\ LET c == clients[Main]
           E(ret, performs, logs) ==
               Ev("UploadFile", "done", Main, 0, strLocalFile, strRemoteFile, ret, performs,
                  logs, NoFrame, c)
       IN  IF strLocalFile = <<>> \/ strRemoteFile = <<>>
           THEN ev' = E(FALSE, 0, <<>>)
           ELSE IF ~SessionStarted(c)
           THEN ev' = E(FALSE, 0, LogIf(c, "LOG_ERROR_CURL_NOT_INIT_MSG"))
           ELSE IF ~StatExists(strLocalFile, dirs, files)
           THEN ev' = E(FALSE, 0, <<>>)
           ELSE \E opened \in BOOLEAN :
                  IF ~opened
                  THEN ev' = E(FALSE, 0, LogIf(c, "LOG_ERROR_FILE_UPLOAD_FORMAT"))
                  ELSE \E res \in PerformStatuses :
                         ev' = E(res = "CURLE_OK", 1,
                                 IF res # "CURLE_OK" THEN LogIf(c, "LOG_ERROR_CURL_UPLOAD_FORMAT")
                                 ELSE <<>>)
    /\ UNCHANGED <<clients, ipc, s_iCurlSession, s_mtxCurlSession, curlGlobal,
                   dirs, files, stack, faults, nCalls>>

\* WriteToFileCallback(buff, size, nmemb, data) appends a chunk to the stream
WriteToFileCallback(content, buff) == Append(content, buff)

RECURSIVE WriteAll(_, _)
WriteAll(content, chunks) ==
    IF chunks = <<>> THEN content
    ELSE WriteAll(WriteToFileCallback(content, Head(chunks)), Tail(chunks))

DownloadFile(strLocalFile, strRemoteFile) ==
    /\ Idle /\ ipc[Main] = "live"
    /\ LET c == clients[Main]
           E(ret, performs, logs) ==
               Ev("DownloadFile", "done", Main, 0, strLocalFile, strRemoteFile, ret, performs,
                  logs, NoFrame, c)
           remote == RemoteFile(ParseURL(c, strRemoteFile))
       IN  IF strLocalFile = <<>> \/ strRemoteFile = <<>>
           THEN ev' = E(FALSE, 0, <<>>) /\ UNCHANGED <<files, faults>>
           ELSE IF ~SessionStarted(c)
           THEN /\ ev' = E(FALSE, 0, LogIf(c, "LOG_ERROR_CURL_NOT_INIT_MSG"))
                /\ UNCHANGED <<files, faults>>
           ELSE \E opened \in OpenResults(strLocalFile, dirs, faults < MaxFaults) :
                  IF ~opened
                  THEN /\ ev' = E(FALSE, 0, LogIf(c, "LOG_ERROR_FILE_GETFILE_FORMAT"))
                       /\ faults' = IF TRUE \in OpenResults(strLocalFile, dirs, faults < MaxFaults)
                                    THEN faults + 1 ELSE faults
                       /\ UNCHANGED files
                  ELSE IF remote = <<-1>>
                  THEN \* nothing is received; the empty file is closed and removed
                       /\ ev' = E(FALSE, 1, LogIf(c, "LOG_ERROR_CURL_GETFILE_FORMAT"))
                       /\ files' = Remove(Truncate(files, strLocalFile), strLocalFile)
                       /\ UNCHANGED faults
                  ELSE \/ /\ ev' = E(TRUE, 1, <<>>)
                          /\ files' = [Truncate(files, strLocalFile) EXCEPT
                                         ![strLocalFile] = WriteAll(<<>>, remote)]
                          /\ UNCHANGED faults
                       \/ /\ faults < MaxFaults
                          /\ faults' = faults + 1
                          /\ ev' = E(FALSE, 1, LogIf(c, "LOG_ERROR_CURL_GETFILE_FORMAT"))
                          /\ files' = Remove(Truncate(files, strLocalFile), strLocalFile)
    /\ UNCHANGED <<clients, ipc, s_iCurlSession, s_mtxCurlSession, curlGlobal, dirs, stack,
                   nCalls>>

----------------------------------------------------------------------------
(* The inputs and the specification of one client *)

Hosts == {<<>>, <<"h">>}

LocalDirs == {<<>>, <<"o">>, <<"o", "/">>, <<"n">>, <<"k">>}

Patterns ==
    {<<>>, <<"*">>, <<"b", "/", "*">>, <<"b", "*">>, <<"b">>, <<"b", "/">>, <<"x", "/", "*">>}

\* the local file system at the start: directory o, regular file k, and either
\* nothing else or a regular file where the remote tree has directory c
InitFiles ==
    {(<<"k">> :> <<>>),
     (<<"k">> :> <<>>) @@ (<<"o", "/", "c">> :> <<9>>)}

\* the state after the construction of the first instance
Constructed(run) ==
    /\ clients = [i \in Inst |-> ClientCtor]
    /\ ipc = [i \in Inst |-> IF i = Main THEN "live" ELSE "none"]
    /\ s_iCurlSession = 1
    /\ s_mtxCurlSession = 0
    /\ curlGlobal = TRUE
    /\ dirs = {<<"o">>}
    /\ files \in InitFiles
    /\ stack = <<>>
    /\ faults = 0
    /\ nCalls = 0
    /\ ev = EvRec("CFTPClient", "done", Main, 0, <<>>, <<>>, TRUE, 0, <<>>, NoFrame, ClientCtor,
                  "none", run)

Init == Constructed(NoHistory)

Engine ==
    \/ ChunkBgn
    \/ WriteIt
    \/ ChunkEnd
    \/ PerformDone
    \/ PerformFails
    \/ RetrRefused
    \/ CallChild
    \/ Return

Next ==
    \/ \E strHost \in Hosts, eSettingsFlags \in {ALL_FLAGS, NO_FLAGS} :
         InitSession(Main, strHost, 21, "u", "p", "FTP", eSettingsFlags)
    \/ CleanupSession(Main)
    \/ \E l \in LocalDirs, r \in Patterns : DownloadWildcard(l, r)
    \/ Engine

Spec == Init /\ [][Next]_vars

----------------------------------------------------------------------------
(* All public remote operations of one client *)

RemoteNames == {<<>>, <<"a", "/", "f">>}

LocalFiles == {<<>>, <<"o", "/", "t">>, <<"n", "/", "t">>, <<"k">>}

NextOps ==
    \/ \E strHost \in Hosts, eSettingsFlags \in {ALL_FLAGS, NO_FLAGS} :
         InitSession(Main, strHost, 21, "u", "p", "FTP", eSettingsFlags)
    \/ CleanupSession(Main)
    \/ \E s \in RemoteNames : CreateDir(s)
    \/ \E s \in RemoteNames : RemoveDir(s)
    \/ \E s \in RemoteNames : RemoveFile(s)
    \/ \E s \in RemoteNames : Info(s)
    \/ \E s \in RemoteNames : List(s)
    \/ \E l \in LocalFiles, r \in RemoteNames : UploadFile(l, r)
    \/ \E l \in LocalFiles, r \in RemoteNames : DownloadFile(l, r)
    \/ \E l \in {<<>>, <<"o">>}, r \in {<<>>, <<"b", "/", "*">>} : DownloadWildcard(l, r)
    \/ Engine

SpecOps == Init /\ [][NextOps]_vars

----------------------------------------------------------------------------
(* Construction and destruction of client instances on several threads *)

\* a variant of MutexFree: a lock that never waits
MutexIgnored == TRUE

\* std::mutex::lock() returns once no other thread owns the mutex
MutexFree == s_mtxCurlSession = 0

Step(op, i, logs) ==
    Ev(op, "step", i, 0, <<>>, <<>>, TRUE, 0, logs, NoFrame, clients[i])

\* CFTPClient::CFTPClient: the member initialisers
Construct(i) ==
    /\ ipc[i] = "none"
    /\ clients' = [clients EXCEPT ![i] = ClientCtor]
    /\ ipc' = [ipc EXCEPT ![i] = "c_lock"]
    /\ ev' = Step("CFTPClient", i, <<>>)
    /\ UNCHANGED <<s_iCurlSession, s_mtxCurlSession, curlGlobal, dirs, files, stack, faults, nCalls>>

CtorLock(i) ==
    /\ ipc[i] = "c_lock"
    /\ MutexFree
    /\ s_mtxCurlSession' = i
    /\ ipc' = [ipc EXCEPT ![i] = "c_inc"]
    /\ ev' = Step("lock", i, <<>>)
    /\ UNCHANGED <<clients, s_iCurlSession, curlGlobal, dirs, files, stack, faults, nCalls>>

\* if (s_iCurlSession++ == 0)
CtorIncrement(i) ==
    /\ ipc[i] = "c_inc"
    /\ s_iCurlSession' = s_iCurlSession + 1
    /\ ipc' = [ipc EXCEPT ![i] = IF s_iCurlSession = 0 THEN "c_init" ELSE "c_unlock"]
    /\ ev' = Step("increment", i, <<>>)
    /\ UNCHANGED <<clients, s_mtxCurlSession, curlGlobal, dirs, files, stack, faults, nCalls>>

CtorGlobalInit(i) ==
    /\ ipc[i] = "c_init"
    /\ curlGlobal' = TRUE
    /\ ipc' = [ipc EXCEPT ![i] = "c_unlock"]
    /\ ev' = Step("curl_global_init", i, <<>>)
    /\ UNCHANGED <<clients, s_iCurlSession, s_mtxCurlSession, dirs, files, stack, faults, nCalls>>

CtorUnlock(i) ==
    /\ ipc[i] = "c_unlock"
    /\ s_mtxCurlSession' = 0
    /\ ipc' = [ipc EXCEPT ![i] = "live"]
    /\ ev' = Step("unlock", i, <<>>)
    /\ UNCHANGED <<clients, s_iCurlSession, curlGlobal, dirs, files, stack, faults, nCalls>>

\* CFTPClient::~CFTPClient up to the lock: a session left open is cleaned
Destroy(i) ==
    /\ ipc[i] = "live" /\ Idle
    /\ LET c == clients[i]
           r == CleanupSessionResult(c)
       IN  IF c.sess
           THEN /\ clients' = [clients EXCEPT ![i] = r.c]
                /\ ev' = Ev("CleanupSession", "done", i, 0, <<>>, <<>>, r.ret, 0,
                            LogIf(c, "LOG_WARNING_OBJECT_NOT_CLEANED") \o r.logs, NoFrame, c)
           ELSE /\ UNCHANGED clients
                /\ ev' = Step("~CFTPClient", i, <<>>)
    /\ ipc' = [ipc EXCEPT ![i] = "d_lock"]
    /\ UNCHANGED <<s_iCurlSession, s_mtxCurlSession, curlGlobal, dirs, files, stack, faults, nCalls>>

DtorLock(i) ==
    /\ ipc[i] = "d_lock"
    /\ MutexFree
    /\ s_mtxCurlSession' = i
    /\ ipc' = [ipc EXCEPT ![i] = "d_dec"]
    /\ ev' = Step("lock", i, <<>>)
    /\ UNCHANGED <<clients, s_iCurlSession, curlGlobal, dirs, files, stack, faults, nCalls>>

\* if (--s_iCurlSession <= 0)
DtorDecrement(i) ==
    /\ ipc[i] = "d_dec"
    /\ s_iCurlSession' = s_iCurlSession - 1
    /\ ipc' = [ipc EXCEPT ![i] = IF s_iCurlSession - 1 <= 0 THEN "d_cleanup" ELSE "d_unlock"]
    /\ ev' = Step("decrement", i, <<>>)
    /\ UNCHANGED <<clients, s_mtxCurlSession, curlGlobal, dirs, files, stack, faults, nCalls>>

DtorGlobalCleanup(i) ==
    /\ ipc[i] = "d_cleanup"
    /\ curlGlobal' = FALSE
    /\ ipc' = [ipc EXCEPT ![i] = "d_unlock"]
    /\ ev' = Step("curl_global_cleanup", i, <<>>)
    /\ UNCHANGED <<clients, s_iCurlSession, s_mtxCurlSession, dirs, files, stack, faults, nCalls>>

DtorUnlock(i) ==
    /\ ipc[i] = "d_unlock"
    /\ s_mtxCurlSession' = 0
    /\ ipc' = [ipc EXCEPT ![i] = "none"]
    /\ ev' = Step("unlock", i, <<>>)
    /\ UNCHANGED <<clients, s_iCurlSession, curlGlobal, dirs, files, stack, faults, nCalls>>

\* before any instance exists
InitGlobal ==
    /\ clients = [i \in Inst |-> ClientCtor]
    /\ ipc = [i \in Inst |-> "none"]
    /\ s_iCurlSession = 0
    /\ s_mtxCurlSession = 0
    /\ curlGlobal = FALSE
    /\ dirs = {<<"o">>}
    /\ files = (<<"k">> :> <<>>)
    /\ stack = <<>>
    /\ faults = 0
    /\ nCalls = 0
    /\ ev = EvRec("start", "done", Main, 0, <<>>, <<>>, TRUE, 0, <<>>, NoFrame, ClientCtor, "none",
                  NoHistory)

NextGlobal ==
    \E i \in Inst :
       \/ Construct(i)
       \/ CtorLock(i)
       \/ CtorIncrement(i)
       \/ CtorGlobalInit(i)
       \/ CtorUnlock(i)
       \/ InitSession(i, <<"h">>, 21, "u", "p", "FTP", ALL_FLAGS)
       \/ CleanupSession(i)
       \/ Destroy(i)
       \/ DtorLock(i)
       \/ DtorDecrement(i)
       \/ DtorGlobalCleanup(i)
       \/ DtorUnlock(i)

SpecGlobal == InitGlobal /\ [][NextGlobal]_vars

----------------------------------------------------------------------------
(* The session lifecycle of one client, over varied arguments *)

\* the argument lists InitSession is called with
SessionArgs ==
    {[host |-> <<"h">>, port |-> 21, login |-> "u", pwd |-> "p", proto |-> "FTP",
      flags |-> ALL_FLAGS],
     [host |-> <<"g">>, port |-> 22, login |-> "v", pwd |-> "q", proto |-> "SFTP",
      flags |-> NO_FLAGS],
     [host |-> <<"h">>, port |-> 22, login |-> "u", pwd |-> "q", proto |-> "FTPS",
      flags |-> {"ENABLE_LOG"}],
     [host |-> <<>>, port |-> 990, login |-> "w", pwd |-> "r", proto |-> "FTPES",
      flags |-> {"ENABLE_SSH"}]}

NextSession ==
    \/ \E a \in SessionArgs :
         InitSession(Main, a.host, a.port, a.login, a.pwd, a.proto, a.flags)
    \/ CleanupSession(Main)

SpecSession == Init /\ [][NextSession]_vars

----------------------------------------------------------------------------
(* Repeated downloads into one local directory *)

\* the patterns downloaded again
AgainPatterns == {<<"*">>, <<"b", "/", "*">>}

NextTwice ==
    \/ InitSession(Main, <<"h">>, 21, "u", "p", "FTP", ALL_FLAGS)
    \/ \E r \in AgainPatterns : CallDownloadWildcard(<<"o">>, r, MaxCalls + 1)
    \/ Engine

InitTwice == Constructed(NoRun)

SpecTwice == InitTwice /\ [][NextTwice]_vars

----------------------------------------------------------------------------
(* One client that downloads, with the steps of a call in flight always taken *)

NextLive ==
    \/ InitSession(Main, <<"h">>, 21, "u", "p", "FTP", ALL_FLAGS)
    \/ \E r \in AgainPatterns : CallDownloadWildcard(<<"o">>, r, MaxCalls)
    \/ Engine

\* DownloadWildcard is sequential code on one thread and curl_easy_perform
\* returns: a call in flight takes its next step
SpecLive == Init /\ [][NextLive]_vars /\ WF_vars(Engine)

----------------------------------------------------------------------------
(* The three wildcard callbacks called in any order on the data of one
   enumeration *)

\* the entries announced
EventEntries == {FileE(<<"f">>, <<>>), FileE(<<"g">>, <<>>), OtherE(<<"s">>)}

EventChunks == {1, 2}

\* DownloadWildcard("o", "*") up to its Perform; besides the data of the
\* invocation the behaviour keeps the name of the file announced last and the
\* number of callbacks called
BeginEvents ==
    /\ Idle /\ ipc[Main] = "live"
    /\ nCalls < MaxCalls
    /\ \E o \in {Enter(clients[Main], <<"o">>, <<"*">>, dirs, files)} :
         /\ o.pushed
         /\ stack' = <<[o.frame EXCEPT !.env = [lastFile |-> <<>>, events |-> 0] @@ @]>>
         /\ ev' = Ev("DownloadWildcard", "entered", Main, 1, <<"o">>, <<"*">>, FALSE, 1,
                     o.logs, o.frame, clients[Main])
    /\ nCalls' = nCalls + 1
    /\ UNCHANGED <<clients, ipc, s_iCurlSession, s_mtxCurlSession, curlGlobal,
                   dirs, files, faults>>

EventDue == ~Idle /\ Top.pc = "perform" /\ Top.env.events < MaxEvents

\* the chunk begin callback is called for some entry, whatever came before
AnnounceAny ==
    /\ EventDue
    /\ \E finfo \in EventEntries :
       \E o \in FileIsComingCallback(finfo, Top.data, dirs, files, faults < MaxFaults) :
         /\ dirs' = o.dirs
         /\ faults' = faults + o.fault
         /\ IF o.ret = "CURL_CHUNK_BGN_FUNC_OK"
            THEN LET fr1 == [Top EXCEPT !.data = o.data,
                                        !.env.type = finfo.type,
                                        !.env.name = finfo.name,
                                        !.env.lastFile =
                                           IF finfo.type = "FILE" THEN finfo.name ELSE @,
                                        !.env.events = @ + 1]
                 IN  /\ stack' = SetTop(fr1)
                     /\ files' = o.files
                     /\ ev' = Ev("FileIsComingCallback", "callback", Main, Len(stack),
                                 finfo.name, finfo.type, TRUE, 0, <<>>, fr1, clients[Main])
            ELSE EndPerform("FileIsComingCallback", finfo.name, finfo.type,
                            [Top EXCEPT !.data = o.data], "CURLE_CHUNK_FAILED", o.files)
    /\ FrozenGlobal

\* the write callback is called with some chunk, whatever came before
DataAny ==
    /\ EventDue
    /\ \E buff \in EventChunks :
       \E w \in {WriteItCallback(buff, 1, Top.data, files)} :
         IF w.written = 1
         THEN LET fr1 == [Top EXCEPT !.env.events = @ + 1]
              IN  /\ stack' = SetTop(fr1)
                  /\ files' = w.files
                  /\ ev' = Ev("WriteItCallback", "callback", Main, Len(stack),
                              <<buff>>, <<>>, TRUE, 0, <<>>, fr1, clients[Main])
         ELSE EndPerform("WriteItCallback", <<buff>>, <<>>, Top, "CURLE_WRITE_ERROR", w.files)
    /\ UNCHANGED <<dirs, faults>>
    /\ FrozenGlobal

\* the chunk end callback is called, whatever came before
CompleteAny ==
    /\ EventDue
    /\ LET fr1 == [Top EXCEPT !.data = FileIsDownloadedCallback(@), !.env.events = @ + 1]
       IN  /\ stack' = SetTop(fr1)
           /\ ev' = Ev("FileIsDownloadedCallback", "callback", Main, Len(stack),
                       <<>>, <<>>, TRUE, 0, <<>>, fr1, clients[Main])
    /\ UNCHANGED <<dirs, files, faults>>
    /\ FrozenGlobal

\* perform returns CURLE_OK after the callbacks called so far
PerformEndsAny ==
    /\ ~Idle /\ Top.pc = "perform"
    /\ EndPerform("Perform", <<>>, <<>>, Top, "CURLE_OK", files)
    /\ UNCHANGED <<dirs, faults>>
    /\ FrozenGlobal

NextEvents ==
    \/ InitSession(Main, <<"h">>, 21, "u", "p", "FTP", ALL_FLAGS)
    \/ BeginEvents
    \/ AnnounceAny
    \/ DataAny
    \/ CompleteAny
    \/ PerformEndsAny
    \/ Return

SpecEvents == Init /\ [][NextEvents]_vars

----------------------------------------------------------------------------
(* Properties of the wildcard download (specification Spec) *)

\* the last step was a call of DownloadWildcard (top-level or recursive) that
\* has either returned at once ("done") or has its perform in flight ("entered")
WildcardCall == ev.op = "DownloadWildcard" /\ ev.phase \in {"done", "entered"}

\* the last step was the return of an invocation of DownloadWildcard that had
\* issued its perform; ev.frame is that invocation, ev.ret the value returned
WildcardReturn == ev.op = "DownloadWildcard" /\ ev.phase = "return"

\* the last step ended the perform of invocation ev.frame
PerformEnd == ev.phase = "perform_end"

WithSlash(s) == IF EndsWith(s, "/") THEN s ELSE s \o <<"/">>

\* the local directory named by strLocalDir (with or without a final
\* separator) exists and is a directory
LocalDirIsDirectory(strLocalDir) ==
    (IF EndsWith(strLocalDir, SEP) THEN Front(strLocalDir) ELSE strLocalDir) \in dirs

\* C1: a call of DownloadWildcard with non-empty arguments on a started
\* session whose local output directory does not exist or is not a directory
\* returns false at once: it issues no perform and no invocation of it is left
\* on the call stack.
C1_MissingLocalDir ==
    (/\ WildcardCall
     /\ ev.a1 # <<>> /\ ev.a2 # <<>>
     /\ ev.pre.sess
     /\ ~LocalDirIsDirectory(ev.a1))
    => (/\ ev.phase = "done"
        /\ ev.ret = FALSE
        /\ ev.performs = 0
        /\ Len(stack) < ev.depth)

\* a recursive call whose local path is an existing regular file returned false
C1_Witness ==
    /\ WildcardCall
    /\ ev.pre.sess
    /\ ev.depth = 2
    /\ ev.a1 = <<"o", "/", "c">> /\ ev.a1 \in DOMAIN files
    /\ ev.a2 = <<"c", "/", "*">>
    /\ ev.phase = "done" /\ ev.ret = FALSE /\ ev.performs = 0

\* C2: when the perform of an invocation ends with CURLE_REMOTE_FILE_NOT_FOUND
\* and its list of subdirectories is empty, the invocation goes straight to its
\* return with bRet true, and returns true.
C2_EmptyRemoteDir ==
    /\ (/\ PerformEnd
        /\ ev.frame.res = "CURLE_REMOTE_FILE_NOT_FOUND"
        /\ ev.frame.data.vecDirList = <<>>)
       => (ev.frame.pc = "ret" /\ ev.frame.bRet = TRUE)
    /\ (/\ WildcardReturn
        /\ ev.frame.res = "CURLE_REMOTE_FILE_NOT_FOUND"
        /\ ev.frame.data.vecDirList = <<>>)
       => ev.ret = TRUE

\* the invocation for the empty remote directory b/d, where nothing was
\* announced, returned true
C2_Witness ==
    /\ WildcardReturn
    /\ ev.a2 = <<"b", "/", "d", "/", "*">>
    /\ ev.frame.res = "CURLE_REMOTE_FILE_NOT_FOUND"
    /\ ev.frame.env.name = <<>>
    /\ ev.frame.data.vecDirList = <<>>
    /\ ev.ret = TRUE

\* C3: when the perform of an invocation ends with a status other than
\* CURLE_OK and CURLE_REMOTE_FILE_NOT_FOUND, the invocation goes straight to
\* its return with bRet false, and it returns false having made no recursive
\* call, whatever its list of subdirectories holds.
C3_HardFailure ==
    /\ (PerformEnd /\ ev.frame.res \notin {"CURLE_OK", "CURLE_REMOTE_FILE_NOT_FOUND"})
       => (ev.frame.pc = "ret" /\ ev.frame.bRet = FALSE /\ ev.frame.calls = <<>>)
    /\ (WildcardReturn /\ ev.frame.res \notin {"CURLE_OK", "CURLE_REMOTE_FILE_NOT_FOUND"})
       => (ev.ret = FALSE /\ ev.frame.calls = <<>>)
    /\ (WildcardCall /\ ev.depth > 1)
       => stack[ev.depth - 1].res \in {"CURLE_OK", "CURLE_REMOTE_FILE_NOT_FOUND"}

\* an invocation whose perform failed after subdirectories had been collected
\* returned false without a recursive call
C3_Witness ==
    /\ WildcardReturn
    /\ ev.frame.res = "CURLE_RECV_ERROR"
    /\ Len(ev.frame.data.vecDirList) >= 2
    /\ ev.frame.calls = <<>>
    /\ ev.ret = FALSE

\* C4: an invocation whose perform ended with CURLE_OK, with a non-empty list
\* of subdirectories and a pattern ending in '*', has at its return made
\* exactly one recursive call per element of the list, in the order of the
\* list, and returns true exactly when every one of these calls returned true.
C4_AllChildren ==
    (/\ WildcardReturn
     /\ ev.frame.res = "CURLE_OK"
     /\ ev.frame.data.vecDirList # <<>>
     /\ ev.a2[Len(ev.a2)] = "*")
    => LET fr == ev.frame
       IN  /\ Len(fr.calls) = Len(fr.data.vecDirList)
           /\ \A k \in 1 .. Len(fr.calls) :
                 fr.calls[k].strLocalDir = fr.data.strOutputPath \o fr.data.vecDirList[k]
           /\ ev.ret = (\A k \in 1 .. Len(fr.calls) : fr.calls[k].ret)

\* the first recursive call failed, a later one was made and succeeded, and the
\* invocation returned false
C4_Witness ==
    /\ WildcardReturn
    /\ ev.frame.res = "CURLE_OK"
    /\ Len(ev.frame.calls) = 3
    /\ ev.frame.calls[1].ret = FALSE
    /\ ev.frame.calls[2].ret = TRUE
    /\ ev.ret = FALSE

\* what BaseUrl and ChildArgs give for the pattern "reports/*", the output
\* path "l/" and the subdirectory "2024"
ReportsExample ==
    LET P == <<"r", "e", "p", "o", "r", "t", "s", "/", "*">>
        d == <<"2", "0", "2", "4">>
        a == ChildArgs([strRemoteWildcard |-> P, data |-> NewData(NormalizeDir(<<"l">>))], d)
    IN  /\ a.strRemoteWildcard =
             <<"r", "e", "p", "o", "r", "t", "s", "/", "2", "0", "2", "4", "/", "*">>
        /\ a.strLocalDir = <<"l", "/", "2", "0", "2", "4">>

\* C5, as stated: every recursive call made for a subdirectory d by an
\* invocation with pattern P and local directory localDir has the pattern "P
\* without its final '*', made to end with '/', then d, then "/*"" and the local
\* path "localDir, separator, d".
C5_AsStated ==
    WildcardReturn
    => LET fr == ev.frame
       IN  \A k \in 1 .. Len(fr.calls) :
              /\ fr.calls[k].strRemoteWildcard =
                    WithSlash(Front(fr.strRemoteWildcard)) \o fr.data.vecDirList[k] \o <<"/", "*">>
              /\ fr.calls[k].strLocalDir = WithSlash(fr.strLocalDir) \o fr.data.vecDirList[k]

\* C5, amended: the pattern of the recursive call is P without its final '*',
\* with a '/' appended only when what is left is non-empty and does not end
\* with one, then d, then "/*" (so P = "*" gives "d/*", not "/d/*"); the local
\* path is localDir, with a separator appended unless it ends with one, then d.
C5_ChildArguments ==
    /\ ReportsExample
    /\ WildcardReturn
       => LET fr == ev.frame
              base == Front(fr.strRemoteWildcard)
          IN  \A k \in 1 .. Len(fr.calls) :
                 /\ fr.calls[k].strRemoteWildcard =
                       (IF base = <<>> THEN <<>> ELSE WithSlash(base))
                          \o fr.data.vecDirList[k] \o <<"/", "*">>
                 /\ fr.calls[k].strLocalDir = WithSlash(fr.strLocalDir) \o fr.data.vecDirList[k]

\* the invocation with pattern "*" called "a/*" for subdirectory a, the one
\* with pattern "b*" would call "b/b/*" for subdirectory b
C5_Witness ==
    /\ WildcardReturn
    /\ ev.a1 = <<"o">> /\ ev.a2 = <<"*">>
    /\ Len(ev.frame.calls) = 3
    /\ ev.frame.calls[1].strRemoteWildcard = <<"a", "/", "*">>
    /\ ev.frame.calls[1].strLocalDir = <<"o", "/", "a">>
    /\ BaseUrl(<<"b", "*">>) = <<"b", "/">>

Range(s) == {s[k] : k \in 1 .. Len(s)}

RECURSIVE RemoteFilesUnder(_, _)
\* the regular files of the remote tree below directory dir, each with the
\* local path (below the local directory local, which ends with the separator)
\* a complete download gives it, and its content
RemoteFilesUnder(dir, local) ==
    IF dir \notin DOMAIN RemoteTree THEN {}
    ELSE UNION {IF e.type = "FILE" THEN {[path |-> local \o e.name, content |-> e.chunks]}
                ELSE IF e.type = "DIR"
                THEN RemoteFilesUnder(Append(dir, e.name), local \o e.name \o <<SEP>>)
                ELSE {} : e \in Range(RemoteTree[dir])}

\* the remote directory a pattern "dir/*" enumerates
PatternDir(strRemoteWildcard) == Front(Split(strRemoteWildcard, <<>>))

\* C6, as stated: when a top-level call returns after a recursive call for one
\* subdirectory returned false and the recursive call for another returned
\* true, the result is false, no stream is left open and every remote file
\* under each subdirectory whose call returned true exists locally with exactly
\* the remote content.
C6_AsStated ==
    (/\ WildcardReturn
     /\ ev.depth = 1
     /\ \E k \in 1 .. Len(ev.frame.calls) : ev.frame.calls[k].ret = FALSE
     /\ \E k \in 1 .. Len(ev.frame.calls) : ev.frame.calls[k].ret = TRUE)
    => (/\ ev.ret = FALSE
        /\ stack = <<>>
        /\ \A k \in 1 .. Len(ev.frame.calls) :
              ev.frame.calls[k].ret = TRUE
              => \A x \in RemoteFilesUnder(PatternDir(ev.frame.calls[k].strRemoteWildcard),
                                           ev.frame.calls[k].strLocalDir \o <<SEP>>) :
                    x.path \in DOMAIN files /\ files[x.path] = x.content)

\* C7: when mkdir for an announced subdirectory fails for a reason other than
\* EEXIST (after the callback the path is neither a directory nor a file), the
\* callback returned the abort signal and the perform of that level ended with
\* CURLE_CHUNK_FAILED; the invocation of that level goes to its return and
\* returns false; and the invocation that called it still calls DownloadWildcard
\* for every element of its own list.
C7_MkdirFailure ==
    /\ (/\ ev.op = "FileIsComingCallback"
        /\ ev.a2 = "DIR"
        /\ ev.frame.data.strOutputPath \o ev.a1 \notin dirs
        /\ ev.frame.data.strOutputPath \o ev.a1 \notin DOMAIN files)
       => (/\ ev.phase = "perform_end"
           /\ ev.ret = FALSE
           /\ ev.frame.res = "CURLE_CHUNK_FAILED"
           /\ ev.frame.pc = "ret"
           /\ ev.frame.bRet = FALSE)
    /\ (WildcardReturn /\ ev.frame.res = "CURLE_CHUNK_FAILED") => ev.ret = FALSE
    /\ (/\ WildcardReturn
        /\ \E k \in 1 .. Len(ev.frame.calls) : ev.frame.calls[k].res = "CURLE_CHUNK_FAILED")
       => (/\ Len(ev.frame.calls) = Len(ev.frame.data.vecDirList)
           /\ \A k \in 1 .. Len(ev.frame.calls) :
                 ev.frame.calls[k].res = "CURLE_CHUNK_FAILED" => ev.frame.calls[k].ret = FALSE)

\* mkdir failed for o/b/d during the enumeration of b/*, whose invocation
\* returned false after the file g before d had been downloaded; the sibling c
\* was then enumerated and downloaded
C7_Witness ==
    /\ WildcardReturn
    /\ ev.depth = 1
    /\ Len(ev.frame.calls) = 3
    /\ ev.frame.calls[2].strRemoteWildcard = <<"b", "/", "*">>
    /\ ev.frame.calls[2].res = "CURLE_CHUNK_FAILED"
    /\ ev.frame.calls[2].ret = FALSE
    /\ <<"o", "/", "b", "/", "d">> \notin dirs
    /\ <<"o", "/", "b", "/", "g">> \in DOMAIN files
    /\ ev.frame.calls[3].res = "CURLE_OK"
    /\ ev.frame.calls[3].ret = TRUE
    /\ <<"o", "/", "c", "/", "f">> \in DOMAIN files

----------------------------------------------------------------------------
(* Properties of the public operations (specification SpecOps) *)

PublicOps ==
    {"CreateDir", "RemoveDir", "RemoveFile", "Info", "List", "DownloadFile",
     "DownloadWildcard", "UploadFile"}

\* the operations with two string arguments
TwoStrings == {"DownloadFile", "DownloadWildcard", "UploadFile"}

\* C8: a call of a public remote operation with an empty string argument, or
\* on a client without a started session, returns false at once and issues no
\* perform.
C8_Preconditions ==
    (/\ ev.op \in PublicOps
     /\ ev.phase \in {"done", "entered"}
     /\ \/ ev.a1 = <<>>
        \/ ev.op \in TwoStrings /\ ev.a2 = <<>>
        \/ ~ev.pre.sess)
    => (ev.phase = "done" /\ ev.ret = FALSE /\ ev.performs = 0 /\ Idle)

\* DownloadFile was called with non-empty arguments before any session was
\* started and returned false
C8_Witness ==
    /\ ev.op = "DownloadFile"
    /\ ev.a1 = <<"o", "/", "t">> /\ ev.a2 = <<"a", "/", "f">>
    /\ ~ev.pre.sess
    /\ ev.ret = FALSE /\ ev.performs = 0
    /\ <<"o", "/", "t">> \notin DOMAIN files

----------------------------------------------------------------------------
(* Properties of construction and destruction (specification SpecGlobal) *)

\* instance i is counted: its constructor has incremented s_iCurlSession and
\* its destructor has not yet decremented it
Counted(i) == ipc[i] \in {"c_init", "c_unlock", "live", "d_lock", "d_dec"}

\* instance i is live: counted, and the global initialisation its constructor
\* may have to run is over
Live(i) == ipc[i] \in {"c_unlock", "live", "d_lock", "d_dec"}

\* C9: in every state reached by interleaved constructors and destructors,
\* s_iCurlSession is the number of counted instances, the engine is globally
\* initialised whenever an instance is live, curl_global_init has just run only
\* if no other instance is counted, and curl_global_cleanup has just run only
\* if no instance at all is counted.
C9_GlobalInitRefCount ==
    /\ s_iCurlSession = Cardinality({i \in Inst : Counted(i)})
    /\ (\E i \in Inst : Live(i)) => curlGlobal
    /\ ev.op = "curl_global_init"
       => (curlGlobal /\ \A j \in Inst \ {ev.inst} : ~Counted(j))
    /\ ev.op = "curl_global_cleanup"
       => (~curlGlobal /\ s_iCurlSession = 0 /\ \A j \in Inst : ~Counted(j))

\* two instances are live at once, and the second constructor did not
\* initialise the engine again
C9_Witness ==
    /\ \E i, j \in Inst : i # j /\ ipc[i] = "live" /\ ipc[j] = "live"
    /\ s_iCurlSession = 2
    /\ curlGlobal
    /\ ev.op = "unlock"

----------------------------------------------------------------------------
(* Properties of the session lifecycle (specification SpecSession) *)

\* C10: InitSession with an empty host or on a started session returns false
\* and leaves every field of the client as it was; CleanupSession without a
\* started session returns false and leaves every field as it was; a
\* successful InitSession is the first successful session operation or follows
\* a successful CleanupSession, and a successful CleanupSession follows a
\* successful InitSession.
C10_SessionLifecycle ==
    /\ (ev.op = "InitSession" /\ (ev.pre.sess \/ ev.a1 = <<>>))
       => (ev.ret = FALSE /\ clients[ev.inst] = ev.pre)
    /\ (ev.op = "CleanupSession" /\ ~ev.pre.sess)
       => (ev.ret = FALSE /\ clients[ev.inst] = ev.pre)
    /\ (ev.op = "InitSession" /\ ev.ret) => ev.prevOk \in {"none", "CleanupSession"}
    /\ (ev.op = "CleanupSession" /\ ev.ret) => ev.prevOk = "InitSession"

\* InitSession for host g was refused on a session started for host h and
\* port 22, which it left as it was
C10_Witness ==
    /\ ev.op = "InitSession"
    /\ ev.a1 = <<"g">>
    /\ ev.pre.sess /\ ev.pre.host = <<"h">> /\ ev.pre.port = 22
    /\ ev.ret = FALSE
    /\ clients[Main] = ev.pre
    /\ ev.prevOk = "InitSession"

----------------------------------------------------------------------------
(* Properties of logging (specification Spec) *)

\* C11, as stated: a step of a client whose settings do not hold ENABLE_LOG
\* gives no message to the logger callback, whatever the operation and also
\* when a recursive call of DownloadWildcard has failed.
C11_AsStated == "ENABLE_LOG" \notin ev.pre.flags => ev.logs = <<>>

----------------------------------------------------------------------------
(* Properties of the downloaded tree (specification Spec) *)

RECURSIVE RemoteDirsUnder(_, _)
\* the directories of the remote tree below directory dir, each as the local
\* path (below the local directory local, which ends with the separator) a
\* complete download gives it
RemoteDirsUnder(dir, local) ==
    IF dir \notin DOMAIN RemoteTree THEN {}
    ELSE UNION {IF e.type = "DIR"
                THEN {local \o e.name}
                     \cup RemoteDirsUnder(Append(dir, e.name), local \o e.name \o <<SEP>>)
                ELSE {} : e \in Range(RemoteTree[dir])}

\* the local directories below the local directory local (which ends with the
\* separator)
LocalDirsUnder(local) ==
    {d \in dirs : Len(d) > Len(local) /\ SubSeq(d, 1, Len(local)) = local}

\* the pattern names everything in one remote directory: its last component is "*"
WholeDirectory(strRemoteWildcard) ==
    LET segs == Split(strRemoteWildcard, <<>>)
    IN  segs # <<>> /\ segs[Len(segs)] = <<"*">>

\* C12: when the first top-level call, with a pattern dir/*, returns true and
\* no failure has occurred (every perform ran to its end), the local
\* directories below the local directory are exactly the mirrored remote
\* directories below dir, and every remote file below dir exists at its
\* mirrored local path with the chunks the server sent, in order.
C12_RoundTrip ==
    (/\ WildcardReturn
     /\ ev.depth = 1
     /\ ev.ret = TRUE
     /\ faults = 0
     /\ nCalls = 1
     /\ WholeDirectory(ev.a2))
    => LET dir == PatternDir(ev.a2)
           loc == WithSlash(ev.a1)
       IN  /\ dir \in DOMAIN RemoteTree
           /\ LocalDirsUnder(loc) = RemoteDirsUnder(dir, loc)
           /\ \A x \in RemoteFilesUnder(dir, loc) :
                 x.path \in DOMAIN files /\ files[x.path] = x.content

\* the download of the whole remote tree into o returned true: the three
\* directories and the nested one exist, the two-chunk file has both chunks
C12_Witness ==
    /\ WildcardReturn
    /\ ev.depth = 1
    /\ ev.a1 = <<"o">> /\ ev.a2 = <<"*">>
    /\ ev.ret = TRUE
    /\ faults = 0
    /\ nCalls = 1
    /\ LocalDirsUnder(<<"o", "/">>) =
          {<<"o", "/", "a">>, <<"o", "/", "b">>, <<"o", "/", "c">>, <<"o", "/", "b", "/", "d">>}
    /\ files[<<"o", "/", "a", "/", "f">>] = <<1, 2>>
    /\ files[<<"o", "/", "b", "/", "g">>] = <<3>>

----------------------------------------------------------------------------
(* Properties of repeated downloads (specification SpecTwice) *)

\* C13: when a top-level call returns, the previous top-level download had the
\* same arguments and returned true, and no failure has occurred in either,
\* the call returns true as well and leaves the local directories and the
\* local files, with their contents, exactly as the previous one left them.
C13_Idempotent ==
    (/\ WildcardReturn
     /\ ev.depth = 1
     /\ ev.prevRun # NoRun
     /\ ev.prevRun.strLocalDir = ev.a1
     /\ ev.prevRun.strRemoteWildcard = ev.a2
     /\ ev.prevRun.ret = TRUE
     /\ faults = 0)
    => (/\ ev.ret = TRUE
        /\ dirs = ev.prevRun.dirs
        /\ files = ev.prevRun.files)

\* the whole remote tree was downloaded a second time into o, over the
\* directories and files of the first download
C13_Witness ==
    /\ WildcardReturn
    /\ ev.depth = 1
    /\ nCalls = 2
    /\ ev.a1 = <<"o">> /\ ev.a2 = <<"*">>
    /\ ev.prevRun # NoRun
    /\ ev.prevRun.strRemoteWildcard = <<"*">>
    /\ ev.prevRun.ret = TRUE
    /\ faults = 0
    /\ ev.ret = TRUE
    /\ <<"o", "/", "b", "/", "d">> \in dirs
    /\ files[<<"o", "/", "a", "/", "f">>] = <<1, 2>>

----------------------------------------------------------------------------
(* Properties of the transfer callbacks (specification Spec) *)

\* C14: the output stream of an invocation is open only while its perform is
\* in flight: when the perform has returned, with whatever status, and while
\* the invocation loops over its subdirectories or returns, and so during all
\* the recursive calls, its stream is closed.
C14_ClosedAfterPerform ==
    /\ \A k \in 1 .. Len(stack) :
          stack[k].pc # "perform" => stack[k].data.ofsOutput.open = FALSE
    /\ PerformEnd => ev.frame.data.ofsOutput.open = FALSE
    /\ WildcardReturn => ev.frame.data.ofsOutput.open = FALSE

\* the perform failed after the first of the two chunks of file a/f: the file
\* holds that chunk and the stream is closed
C14_Witness ==
    /\ PerformEnd
    /\ ev.frame.res = "CURLE_RECV_ERROR"
    /\ ev.frame.env.type = "FILE"
    /\ ev.frame.env.name = <<"f">>
    /\ ev.frame.env.sent = 1
    /\ ev.frame.env.cur # <<>>
    /\ files[<<"o", "/", "a", "/", "f">>] = <<1>>
    /\ ev.frame.data.ofsOutput.open = FALSE

\* the content of the remote file that the invocation fr is receiving
FileBeingReceived(fr) ==
    {x.content : x \in {y \in RemoteFilesUnder(PatternDir(fr.strRemoteWildcard),
                                              fr.data.strOutputPath) :
                          y.path = fr.data.ofsOutput.path}}

\* C15, as stated: a call of the write callback appends the chunk to the open
\* file, or, when no file is open, writes nothing and is reported as accepted:
\* the perform goes on.
C15_AsStated ==
    ev.op = "WriteItCallback"
    => (/\ ev.phase = "callback"
        /\ ev.ret = TRUE
        /\ ev.frame.data.ofsOutput.open
           => FileBeingReceived(ev.frame)
                 = {files[ev.frame.data.ofsOutput.path] \o ev.frame.env.cur})

\* C15, amended: a call of the write callback with a file open appends the
\* chunk to it (the file then holds the chunks received so far, in order) and
\* reports it as accepted; with no file open it writes nothing and returns 0,
\* which ends the perform with CURLE_WRITE_ERROR, so that the invocation
\* returns false.
C15_OnData ==
    ev.op = "WriteItCallback"
    => IF ev.frame.data.ofsOutput.open
       THEN /\ ev.phase = "callback"
            /\ ev.ret = TRUE
            /\ FileBeingReceived(ev.frame)
                  = {files[ev.frame.data.ofsOutput.path] \o ev.frame.env.cur}
       ELSE /\ ev.phase = "perform_end"
            /\ ev.ret = FALSE
            /\ ev.frame.res = "CURLE_WRITE_ERROR"
            /\ ev.frame.env.sent = 0
            /\ ev.frame.pc = "ret" /\ ev.frame.bRet = FALSE
            /\ (ev.depth = 1 /\ nCalls = 1) => files \in InitFiles

\* the listing of remote directory b (pattern "b/", no wildcard) arrived with
\* no file open: the callback returned 0 and the perform ended with an error
C15_Witness ==
    /\ ev.op = "WriteItCallback"
    /\ ev.phase = "perform_end"
    /\ ev.frame.strRemoteWildcard = <<"b", "/">>
    /\ ev.frame.data.ofsOutput.open = FALSE
    /\ ev.frame.res = "CURLE_WRITE_ERROR"
    /\ files \in InitFiles

----------------------------------------------------------------------------
(* Properties of the announcement callback (specification SpecTwice) *)

\* an entry is about to be announced to the innermost invocation
AnnouncementDue ==
    /\ ~Idle /\ Top.pc = "perform"
    /\ Top.env.todo # <<>> /\ ~Top.env.inItem /\ Top.env.cur = <<>>

\* C16: whenever an entry is about to be announced, every outcome of the
\* announcement callback is as follows.  For a file: either it returns
\* continue, the stream is open on strOutputPath + name and that file exists
\* and is empty, every other file being as before, or it returns abort with no
\* stream open and the files as before; the directories and the list of
\* subdirectories are as before.  For an entry that is neither file nor
\* directory: it returns continue and the callback data, the directories and
\* the files are as before.  And a file announcement that has just been
\* accepted left its file open and empty.
C16_Announcement ==
    /\ AnnouncementDue
       => LET finfo == Head(Top.env.todo)
              data  == Top.data
              path  == data.strOutputPath \o finfo.name
              outs  == FileIsComingCallback(finfo, data, dirs, files, TRUE)
          IN  /\ outs # {}
              /\ \A o \in outs :
                    /\ finfo.type = "FILE"
                       => (/\ o.dirs = dirs
                           /\ o.data.vecDirList = data.vecDirList
                           /\ o.data.strOutputPath = data.strOutputPath
                           /\ IF o.ret = "CURL_CHUNK_BGN_FUNC_OK"
                              THEN /\ o.data.ofsOutput.open
                                   /\ o.data.ofsOutput.path = path
                                   /\ o.files = [q \in DOMAIN files \cup {path} |->
                                                    IF q = path THEN <<>> ELSE files[q]]
                              ELSE /\ o.ret = "CURL_CHUNK_BGN_FUNC_FAIL"
                                   /\ o.data.ofsOutput.open = FALSE
                                   /\ o.files = files)
                    /\ finfo.type \notin {"FILE", "DIR"}
                       => (/\ o.ret = "CURL_CHUNK_BGN_FUNC_OK"
                           /\ o.data = data
                           /\ o.dirs = dirs
                           /\ o.files = files)
    /\ (ev.op = "FileIsComingCallback" /\ ev.a2 = "FILE")
       => IF ev.phase = "callback"
          THEN /\ ev.frame.data.ofsOutput.open
               /\ ev.frame.data.ofsOutput.path = ev.frame.data.strOutputPath \o ev.a1
               /\ files[ev.frame.data.strOutputPath \o ev.a1] = <<>>
          ELSE /\ ev.frame.data.ofsOutput.open = FALSE
               /\ ev.frame.res = "CURLE_CHUNK_FAILED"
    /\ (ev.op = "FileIsComingCallback" /\ ev.a2 = "OTHER")
       => (ev.phase = "callback" /\ ev.frame.data.ofsOutput.open = FALSE)

\* in a second download, file a/f was announced: the local file, which held
\* two chunks after the first download, is open and empty; and the entry s,
\* neither file nor directory, has been announced before
C16_Witness ==
    /\ ev.op = "FileIsComingCallback"
    /\ ev.a2 = "FILE"
    /\ ev.phase = "callback"
    /\ nCalls = 2
    /\ ev.lastRun # NoRun
    /\ <<"o", "/", "a", "/", "f">> \in DOMAIN ev.lastRun.files
    /\ ev.lastRun.files[<<"o", "/", "a", "/", "f">>] = <<1, 2>>
    /\ ev.frame.data.ofsOutput.path = <<"o", "/", "a", "/", "f">>
    /\ files[<<"o", "/", "a", "/", "f">>] = <<>>
    /\ stack[1].env.name = <<"c">>

----------------------------------------------------------------------------
(* The end of an invocation that does not recurse (specification Spec) *)

\* the perform of invocation fr ended with CURLE_OK or CURLE_REMOTE_FILE_NOT_FOUND
\* and either no subdirectory was collected or the pattern does not end in '*'
NothingToDescend(fr) ==
    /\ fr.res \in {"CURLE_OK", "CURLE_REMOTE_FILE_NOT_FOUND"}
    /\ \/ fr.data.vecDirList = <<>>
       \/ fr.strRemoteWildcard[Len(fr.strRemoteWildcard)] # "*"

\* C17: when the perform of an invocation ends with CURLE_OK or
\* CURLE_REMOTE_FILE_NOT_FOUND and either its list of subdirectories is empty
\* or its pattern does not end in '*', the invocation goes straight to its
\* return with bRet true, and it returns true having made no recursive call.
C17_NoDescent ==
    /\ (PerformEnd /\ NothingToDescend(ev.frame))
       => (ev.frame.pc = "ret" /\ ev.frame.bRet = TRUE /\ ev.frame.calls = <<>>)
    /\ (WildcardReturn /\ NothingToDescend(ev.frame))
       => (ev.ret = TRUE /\ ev.frame.calls = <<>>)

\* the call with pattern b, which announced the remote directory b and created
\* o/b, returned true without a recursive call: o/b is empty
C17_Witness ==
    /\ WildcardReturn
    /\ ev.depth = 1
    /\ ev.a2 = <<"b">>
    /\ ev.frame.res = "CURLE_OK"
    /\ ev.frame.data.vecDirList = <<<<"b">>>>
    /\ <<"o", "/", "b">> \in dirs
    /\ <<"o", "/", "b", "/", "d">> \notin dirs
    /\ ev.frame.calls = <<>>
    /\ ev.ret = TRUE

----------------------------------------------------------------------------
(* The callback data of nested invocations (specification Spec) *)

\* the last step was a call of one of the three wildcard callbacks
CallbackFired(e) ==
    e.op \in {"FileIsComingCallback", "WriteItCallback", "FileIsDownloadedCallback"}

\* C18: in every step, (1) an invocation that starts, at top level or in a
\* recursion, has an empty list of subdirectories and no open file; (2) a step
\* made by a callback leaves the depth of the recursion and every invocation
\* but the innermost one as they were; (3) the callback data of an invocation
\* that is not the innermost one, or whose perform has returned, does not
\* change as long as the invocation lasts: the list a parent iterates over is
\* the one its own perform collected.
C18_OwnState ==
    [][/\ Len(stack') > Len(stack)
          => /\ Len(stack') = Len(stack) + 1
             /\ stack'[Len(stack')].data.vecDirList = <<>>
             /\ stack'[Len(stack')].data.ofsOutput.open = FALSE
             /\ stack'[Len(stack')].pc = "perform"
       /\ CallbackFired(ev')
          => /\ Len(stack') = Len(stack)
             /\ \A k \in 1..(Len(stack) - 1) : stack'[k] = stack[k]
       /\ \A k \in 1..Len(stack) :
             (k <= Len(stack') /\ (k < Len(stack) \/ stack[k].pc # "perform"))
                => stack'[k].data = stack[k].data]_vars

\* inside the invocation for b, the second child of the call with pattern *,
\* directory d has been announced: it is in the child's list, and the parent's
\* list is the one the parent collected
C18_Witness ==
    /\ ev.op = "FileIsComingCallback"
    /\ ev.phase = "callback"
    /\ ev.depth = 2
    /\ ev.a1 = <<"d">>
    /\ Len(stack) = 2
    /\ stack[2].data.vecDirList = <<<<"d">>>>
    /\ stack[1].data.vecDirList = <<<<"a">>, <<"b">>, <<"c">>>>
    /\ stack[1].i = 2

----------------------------------------------------------------------------
(* The order of the performs of one call (specification SpecLive) *)

\* invocation k of the call stack is where the source puts it when deeper
\* invocations exist: in its loop, waiting for the call it made for element i
DepthFirstAt(k) ==
    LET fr == stack[k]
    IN  /\ fr.pc = "perform" => (k = Len(stack) /\ fr.res = "" /\ fr.calls = <<>>)
        /\ k < Len(stack)
           => /\ fr.pc = "loop"
              /\ fr.res \in {"CURLE_OK", "CURLE_REMOTE_FILE_NOT_FOUND"}
              /\ stack[k + 1].strLocalDir = fr.data.strOutputPath \o fr.data.vecDirList[fr.i]
              /\ stack[k + 1].strRemoteWildcard =
                    ChildArgs(fr, fr.data.vecDirList[fr.i]).strRemoteWildcard
        /\ fr.pc = "loop" => (fr.i = Len(fr.calls) + 1 /\ fr.i <= Len(fr.data.vecDirList))
        /\ Len(fr.calls) <= Len(fr.data.vecDirList)
        /\ \A j \in 1..Len(fr.calls) :
              /\ fr.calls[j].strLocalDir = fr.data.strOutputPath \o fr.data.vecDirList[j]
              /\ fr.calls[j].strRemoteWildcard =
                    ChildArgs(fr, fr.data.vecDirList[j]).strRemoteWildcard
              /\ \A h \in 1..(j - 1) :
                    fr.calls[h].strRemoteWildcard # fr.calls[j].strRemoteWildcard

\* C19: (1) at any time only the innermost invocation can have its perform in
\* flight; every other invocation has got a tolerated status from its perform
\* and waits in its loop for the call it made for one element of its list, the
\* calls it has completed being those for the elements before that one, in the
\* order of the list, with pairwise different patterns; (2) a perform is
\* started only by the step that starts an invocation, one per invocation, and
\* an invocation whose perform has returned starts no other; (3) under the
\* fairness of SpecLive, every call of DownloadWildcard in flight returns.
C19_DepthFirst ==
    /\ [](\A k \in 1..Len(stack) : DepthFirstAt(k))
    /\ [][\A k \in 1..Len(stack') :
             stack'[k].pc = "perform"
                => \/ k <= Len(stack) /\ stack[k].pc = "perform"
                   \/ k = Len(stack') /\ Len(stack') = Len(stack) + 1
                   \/ k = 1 /\ Len(stack) = 0]_vars
    /\ (~Idle) ~> Idle

\* the call with pattern * has completed its calls for a and for b, b's
\* subdirectory d included, and now the invocation for c, the third
\* subdirectory announced, has started its perform
C19_Witness ==
    /\ WildcardCall
    /\ ev.phase = "entered"
    /\ ev.depth = 2
    /\ ev.a2 = <<"c", "/", "*">>
    /\ Len(stack) = 2
    /\ stack[1].data.vecDirList = <<<<"a">>, <<"b">>, <<"c">>>>
    /\ Len(stack[1].calls) = 2
    /\ stack[1].calls[1].strRemoteWildcard = <<"a", "/", "*">>
    /\ stack[1].calls[2].strRemoteWildcard = <<"b", "/", "*">>
    /\ stack[1].calls[2].ret = TRUE
    /\ <<"o", "/", "b", "/", "d">> \in dirs

----------------------------------------------------------------------------
(* The local directory of a recursive call (specification Spec) *)

\* the last step was a recursive call of DownloadWildcard
RecursiveCall == WildcardCall /\ ev.depth > 1

\* C20 as stated: at every recursive call the local directory passed exists
\* and is a directory, and the call passes its check of the local directory.
C20_AsStated ==
    RecursiveCall => (LocalDirIsDirectory(ev.a1) /\ ev.phase = "entered")

\* C20: at every recursive call the local path passed is an existing directory
\* or an existing file that is no directory; the call passes its check of the
\* local directory and issues its perform exactly when it is a directory, and
\* otherwise it returns false without a perform.
C20_ChildLocalDir ==
    RecursiveCall
    => /\ LocalDirIsDirectory(ev.a1) \/ ev.a1 \in DOMAIN files
       /\ (ev.phase = "entered") = LocalDirIsDirectory(ev.a1)
       /\ ev.phase = "done" => (ev.ret = FALSE /\ ev.performs = 0)

\* the directory c was announced while o/c was a regular file: mkdir reported
\* that it exists, c was collected, and the recursive call for it has returned
\* false on its check of the local directory, o/c still being that file
C20_Witness ==
    /\ RecursiveCall
    /\ ev.phase = "done"
    /\ ev.ret = FALSE
    /\ ev.a1 = <<"o", "/", "c">>
    /\ ev.a1 \notin dirs
    /\ files[<<"o", "/", "c">>] = <<9>>
    /\ Len(stack) = 1
    /\ stack[1].data.vecDirList = <<<<"a">>, <<"b">>, <<"c">>>>
    /\ stack[1].calls[3].ret = FALSE
    /\ stack[1].calls[3].res = ""
    /\ "LOG_ERROR_DIR_GETWILD_FORMAT" \in Range(ev.logs)

----------------------------------------------------------------------------
(* The open file under every order of the callbacks (specification SpecEvents) *)

\* the step is a call of the write callback that accepted its chunk
ChunkAccepted ==
    /\ ~Idle /\ Top.pc = "perform"
    /\ ev'.op = "WriteItCallback" /\ ev'.phase = "callback" /\ ev'.ret = TRUE

\* the step is the announcement of a file to an invocation that has a file open
OverlappingAnnouncement ==
    /\ ~Idle /\ Top.pc = "perform" /\ Top.data.ofsOutput.open
    /\ ev'.op = "FileIsComingCallback" /\ ev'.a2 = "FILE"

\* the path of the file announced last to the innermost invocation
LastAnnounced == Top.data.strOutputPath \o Top.env.lastFile

\* C21 as stated: under every order of the callbacks, a chunk that the write
\* callback accepts is appended to the file announced last.
C21_AsStated ==
    [][ChunkAccepted
          => /\ LastAnnounced \in DOMAIN files
             /\ files' = [files EXCEPT ![LastAnnounced] = Append(@, ev'.a1[1])]]_vars

\* C21: under every order of the callbacks, (1) the invocation has one stream,
\* open on one existing file or closed; (2) a chunk is accepted only while the
\* stream is open, and it is appended to the file the stream is open on, which
\* is the file announced last, every other file staying as it was, unless a
\* file was announced while the stream was open: then the chunk is accepted
\* and written nowhere; (3) a file announced while the stream is open is not
\* opened: the callback returns continue, the stream stays on the file it was
\* open on, now in the failed state, and no file changes.
C21_OneOpenFile ==
    /\ [](\A k \in 1..Len(stack) :
             stack[k].data.ofsOutput.open => stack[k].data.ofsOutput.path \in DOMAIN files)
    /\ [][ChunkAccepted
             => /\ Top.data.ofsOutput.open
                /\ IF Top.data.ofsOutput.fail
                   THEN files' = files
                   ELSE /\ Top.data.ofsOutput.path = LastAnnounced
                        /\ files' = [files EXCEPT ![LastAnnounced] = Append(@, ev'.a1[1])]]_vars
    /\ [][OverlappingAnnouncement
             => /\ ev'.phase = "callback"
                /\ files' = files
                /\ Top'.data.ofsOutput = [Top.data.ofsOutput EXCEPT !.fail = TRUE]]_vars

\* file g was announced while file f was open, and then a chunk was accepted:
\* the stream is still on o/f, failed, o/f is empty and o/g does not exist
C21_Witness ==
    /\ ev.op = "WriteItCallback"
    /\ ev.phase = "callback"
    /\ ev.ret = TRUE
    /\ ev.frame.env.lastFile = <<"g">>
    /\ ev.frame.data.ofsOutput.open
    /\ ev.frame.data.ofsOutput.fail
    /\ ev.frame.data.ofsOutput.path = <<"o", "/", "f">>
    /\ files[<<"o", "/", "f">>] = <<>>
    /\ <<"o", "/", "g">> \notin DOMAIN files

----------------------------------------------------------------------------
(* The result of DownloadFile (specification SpecOps) *)

\* the last step was a call of DownloadFile that opened the local file and
\* issued its perform
DownloadFilePerformed(e) == e.op = "DownloadFile" /\ e.performs = 1

\* C22: a call of DownloadFile returns true only after a perform; after a
\* call that opened the local file and issued its perform, either it returned
\* true and the local file exists and holds exactly the chunks of the remote
\* file, in order, or it returned false and no file exists at the local path,
\* whatever was there before the call; and such a call changes no other file.
C22_NoPartialResult ==
    /\ []((ev.op = "DownloadFile" /\ ev.ret = TRUE) => ev.performs = 1)
    /\ [](DownloadFilePerformed(ev)
             => IF ev.ret
                THEN /\ ev.a1 \in DOMAIN files
                     /\ files[ev.a1] = RemoteFile(ParseURL(ev.pre, ev.a2))
                ELSE ev.a1 \notin DOMAIN files)
    /\ [][DownloadFilePerformed(ev')
             => /\ DOMAIN files' \ {ev'.a1} = DOMAIN files \ {ev'.a1}
                /\ \A q \in DOMAIN files \ {ev'.a1} : files'[q] = files[q]]_vars

\* the only failure so far is the perform of a download to the local path k,
\* a file that exists from the start and that nothing else removes: the call
\* returned false and k is gone
C22_Witness ==
    /\ DownloadFilePerformed(ev)
    /\ ev.a1 = <<"k">>
    /\ ev.a2 = <<"a", "/", "f">>
    /\ ev.ret = FALSE
    /\ faults = 1
    /\ nCalls = 0
    /\ <<"k">> \notin DOMAIN files

====
